---- MODULE Spec2Model ----
(***************************************************************************)
(* hashfs: an fs.FS wrapper that embeds the SHA-256 digest of a file in    *)
(* its name, a memoising cache of plain path <-> hash name, and a small    *)
(* HTTP file server on top of it (src/hashfs.go).                          *)
(*                                                                         *)
(* Strings are sequences of one-character strings, so that the naming      *)
(* codec (FormatName / ParseName) and the path routines it calls are       *)
(* computed character by character, as the code computes them.             *)
(***************************************************************************)
EXTENDS Integers, Sequences, FiniteSets, TLC

(***************************************************************************)
(* Bounds and program constants                                            *)
(***************************************************************************)
\* Number of goroutines calling into the same FS concurrently.
NumProcs == 2

\* Length of a hex-encoded SHA-256 digest: the {64} of hashSuffixRegex.
HashLen == 64

Procs == 1..NumProcs

(***************************************************************************)
(* Strings                                                                 *)
(***************************************************************************)
Rep(c, n) == [i \in 1..n |-> c]

HexChars == {"0", "1", "2", "3", "4", "5", "6", "7", "8", "9",
             "a", "b", "c", "d", "e", "f"}

\* s[i:] and s[:i] of Go, with Go's 0-based offsets.
From(s, i) == SubSeq(s, i + 1, Len(s))
Upto(s, i) == SubSeq(s, 1, i)

\* strings.Index(s, c) for a one-byte c: 0-based offset of the first c, or -1.
Index(s, c) ==
  IF \E i \in 1..Len(s) : s[i] = c
  THEN (CHOOSE i \in 1..Len(s) : s[i] = c /\ \A j \in 1..(i - 1) : s[j] # c) - 1
  ELSE -1

\* strings.LastIndex(s, c) for a one-byte c.
LastIndex(s, c) ==
  IF \E i \in 1..Len(s) : s[i] = c
  THEN (CHOOSE i \in 1..Len(s) : s[i] = c /\ \A j \in (i + 1)..Len(s) : s[j] # c) - 1
  ELSE -1

\* strings.TrimPrefix(s, "/").
TrimSlash(s) == IF Len(s) >= 1 /\ s[1] = "/" THEN Tail(s) ELSE s

\* The "/"-separated elements of s (strings.Split(s, "/")).
RECURSIVE Elements(_)
Elements(s) ==
  LET i == Index(s, "/")
  IN  IF i = -1 THEN <<s>> ELSE <<Upto(s, i)>> \o Elements(From(s, i + 1))

\* Elements joined with "/".
RECURSIVE JoinElements(_)
JoinElements(es) ==
  IF es = <<>> THEN <<>>
  ELSE IF Len(es) = 1 THEN es[1]
  ELSE es[1] \o <<"/">> \o JoinElements(Tail(es))

Dot == <<".">>
DotDot == <<".", ".">>

\* path.Clean's pass over the elements: out is the stack of kept elements.
RECURSIVE CleanElements(_, _, _)
CleanElements(es, out, rooted) ==
  IF es = <<>> THEN out
  ELSE LET e == Head(es)
           rest == Tail(es)
       IN  IF e = <<>> \/ e = Dot THEN CleanElements(rest, out, rooted)
           ELSE IF e = DotDot
           THEN IF out # <<>> /\ out[Len(out)] # DotDot
                THEN CleanElements(rest, Upto(out, Len(out) - 1), rooted)
                ELSE IF rooted THEN CleanElements(rest, out, rooted)
                ELSE CleanElements(rest, Append(out, e), rooted)
           ELSE CleanElements(rest, Append(out, e), rooted)

\* path.Clean: the shortest path name equivalent to p by lexical processing.
Clean(p) ==
  IF p = <<>> THEN Dot
  ELSE LET rooted == p[1] = "/"
           kept == JoinElements(CleanElements(Elements(p), <<>>, rooted))
       IN  IF rooted THEN <<"/">> \o kept
           ELSE IF kept = <<>> THEN Dot ELSE kept

\* path.Split: <<dir, file>>, cut after the final slash.
Split(p) ==
  LET i == LastIndex(p, "/") IN <<Upto(p, i + 1), From(p, i + 1)>>

\* path.Join of two elements: empty elements are ignored, the result is Cleaned.
Join(a, b) ==
  IF a = <<>> /\ b = <<>> THEN <<>>
  ELSE IF a = <<>> THEN Clean(b)
  ELSE IF b = <<>> THEN Clean(a)
  ELSE Clean(a \o <<"/">> \o b)

\* fs.ValidPath: unrooted, slash-separated, no empty, "." or ".." element;
\* the root is named ".".
ValidPath(p) ==
  \/ p = Dot
  \/ /\ p # <<>>
     /\ \A i \in 1..Len(Elements(p)) :
          LET e == Elements(p)[i] IN e # <<>> /\ e # Dot /\ e # DotDot

(***************************************************************************)
(* Naming codec                                                            *)
(***************************************************************************)
\* FormatName putting the hash before the last dot of the base name.
FormatNameLastDot(filename, hash) ==
  IF filename = <<>> THEN <<>>
  ELSE IF hash = <<>> THEN filename
  ELSE LET dir == Split(filename)[1]
           base == Split(filename)[2]
           i == LastIndex(base, ".")
       IN  IF i # -1
           THEN Join(dir, Upto(base, i) \o <<"-">> \o hash \o From(base, i))
           ELSE Join(dir, base \o <<"-">> \o hash)

\* FormatName: the hash goes before the first dot of the base name, or at
\* its end when it has no dot; path.Join puts the directory back.
FormatName(filename, hash) ==
  IF filename = <<>> THEN <<>>
  ELSE IF hash = <<>> THEN filename
  ELSE LET dir == Split(filename)[1]
           base == Split(filename)[2]
           i == Index(base, ".")
       IN  IF i # -1
           THEN Join(dir, Upto(base, i) \o <<"-">> \o hash \o From(base, i))
           ELSE Join(dir, base \o <<"-">> \o hash)

\* hashSuffixRegex.MatchString(pre): the pattern -[0-9a-f]{64} carries no
\* anchor, so it matches wherever it occurs in pre.
HashSuffixMatch(pre) ==
  \E i \in 1..(Len(pre) - HashLen) :
    /\ pre[i] = "-"
    /\ \A j \in 1..HashLen : pre[i + j] \in HexChars

\* ParseName cutting the name where the pattern is first found, not at
\* the end of the stem.
ParseNameFirstMatch(filename) ==
  IF filename = <<>> THEN <<(<<>>), (<<>>)>>
  ELSE LET dir == Split(filename)[1]
           base == Split(filename)[2]
           i == Index(base, ".")
           pre == IF i # -1 THEN Upto(base, i) ELSE base
           ext == IF i # -1 THEN From(base, i) ELSE <<>>
       IN  IF ~HashSuffixMatch(pre) THEN <<filename, (<<>>)>>
           ELSE LET k == CHOOSE k \in 1..(Len(pre) - HashLen) :
                           /\ pre[k] = "-"
                           /\ \A j \in 1..HashLen : pre[k + j] \in HexChars
                           /\ \A l \in 1..(k - 1) :
                                ~(/\ pre[l] = "-"
                                  /\ \A j \in 1..HashLen : pre[l + j] \in HexChars)
                IN  <<Join(dir, Upto(pre, k - 1) \o From(pre, k + HashLen) \o ext),
                      Upto(From(pre, k), HashLen)>>

\* ParseName (package level): <<base, hash>>.
ParseName(filename) ==
  IF filename = <<>> THEN <<(<<>>), (<<>>)>>
  ELSE LET dir == Split(filename)[1]
           base == Split(filename)[2]
           i == Index(base, ".")
           pre == IF i # -1 THEN Upto(base, i) ELSE base
           ext == IF i # -1 THEN From(base, i) ELSE <<>>
       IN  IF ~HashSuffixMatch(pre) THEN <<filename, (<<>>)>>
           ELSE <<Join(dir, Upto(pre, Len(pre) - (HashLen + 1)) \o ext),
                  From(pre, Len(pre) - HashLen)>>

(***************************************************************************)
(* Digest primitive and the underlying store                               *)
(***************************************************************************)
\* File contents are opaque byte strings; two of them are told apart.
Contents == {"c1", "c2"}

\* hex.EncodeToString(sha256.Sum256(buf)): 64 lowercase hex characters,
\* different for different contents.
Sha256Hex(buf) ==
  IF buf = "c1" THEN <<"b", "6">> \o Rep("3", HashLen - 2)
  ELSE <<"7", "e">> \o Rep("a", HashLen - 2)

ZeroHash == Rep("0", HashLen)

\* Paths the calls below are made with.
PlainPath == <<"d", "/", "a", ".", "h", "t", "m", "l">>
DirPath == <<"d">>
NoSuchPath == <<"n", "o", "s", "u", "c", "h">>
HashPath == <<"d", "/", "a", "-">> \o Sha256Hex("c1") \o <<".", "h", "t", "m", "l">>
ZeroPath == <<"d", "/", "a", "-">> \o ZeroHash \o <<".", "h", "t", "m", "l">>
\* The hash name of a file that is itself named like a hash name.
DoublePath ==
  <<"d", "/", "a", "-">> \o ZeroHash \o <<"-">> \o Sha256Hex("c2")
    \o <<".", "h", "t", "m", "l">>

\* What the store holds under a path.
File(c, seek) == [kind |-> "file", content |-> c, seek |-> seek]
Dir == [kind |-> "dir", content |-> "", seek |-> FALSE]
Missing == [kind |-> "missing", content |-> "", seek |-> FALSE]
Denied == [kind |-> "denied", content |-> "", seek |-> FALSE]
Invalid == [kind |-> "invalid", content |-> "", seek |-> FALSE]

\* The stores the model is run over: the plain file present (seekable as an
\* os or embed file is, or a bare fs.File), absent or unopenable; and files
\* literally named like its hash names, one with a stale and one with the
\* right digest in its name, present or not.
Stores ==
  { (Dot :> Dir) @@ (DirPath :> Dir) @@ (PlainPath :> a) @@ (ZeroPath :> lit[1])
      @@ (HashPath :> lit[2]) :
      a \in {File("c1", TRUE), File("c1", FALSE), Missing, Denied},
      lit \in {<<Missing, Missing>>, <<File("c2", TRUE), File("c2", FALSE)>>} }

(***************************************************************************)
(* State                                                                   *)
(***************************************************************************)
VARIABLES
  store,   \* fsys.fsys: the underlying file tree, path -> entry (read-only)
  m,       \* fsys.m: path -> hash name
  r,       \* fsys.r: hash name -> <<path, hash>>
  readers, \* goroutines holding fsys.mu for reading
  writer,  \* the goroutine holding fsys.mu for writing, or 0
  pc,      \* where each goroutine stands in its call
  op,      \* the call each goroutine is in: HashName, Open or ServeHTTP
  loc,     \* the locals of each goroutine's call
  prev,    \* <<name, result>> of a goroutine's HashName call, when that was
           \* the call it made last
  codec    \* one application of the package-level FormatName / ParseName

vars == <<store, m, r, readers, writer, pc, op, loc, prev, codec>>

NoResp == [status |-> 0, body |-> "none", bytes |-> "", cache |-> FALSE,
           etag |-> <<>>, clen |-> FALSE, ctype |-> FALSE,
           method |-> "", cond |-> ""]

NoFile == [kind |-> "none", content |-> "", seek |-> FALSE]

\* name: the parameter of open, rewritten to base when the hash name checks;
\* requested: its value on entry; hn: the parameter of HashName; hnret: what
\* HashName returned; reads: reads of the store made by HashName in this call;
\* file, err: what fsys.fsys.Open returned; staterr: whether f.Stat() failed.
Blank == [requested |-> <<>>, name |-> <<>>, base |-> <<>>, hash |-> <<>>,
          hn |-> <<>>, hashhex |-> <<>>, hashname |-> <<>>, hnret |-> <<>>,
          reads |-> 0, opened |-> FALSE, file |-> NoFile, err |-> "",
          staterr |-> FALSE, resp |-> NoResp]

\* What the store holds under name; a path outside it is missing, and a name
\* that is no valid fs path is refused.
Lookup(name) ==
  IF name \in DOMAIN store THEN store[name]
  ELSE IF ValidPath(name) THEN Missing ELSE Invalid

\* fs.ReadFile(fsys.fsys, name) succeeds on regular files only.
Readable(name) == Lookup(name).kind = "file"

\* ReadFails that takes only a missing file for an error.
ReadFailsWhenMissing(name) == Lookup(name).kind = "none"

\* ReadFails with the error dropped: whatever came back is hashed.
ReadFailsIgnored(name) == FALSE

\* err != nil after fs.ReadFile(fsys.fsys, name).
ReadFails(name) == ~Readable(name)

\* fsys.m[name], "" when absent.
MGet(name) == IF name \in DOMAIN m THEN m[name] ELSE <<>>

\* No application of the package-level functions is under way.
NoCodec ==
  [step |-> "off", filename |-> <<>>, hash |-> <<>>, name |-> <<>>,
   base |-> <<>>, parsed |-> <<>>]

\* NewFS: both maps empty, the lock free.
Init ==
  /\ store \in Stores
  /\ m = <<>>
  /\ r = <<>>
  /\ readers = {}
  /\ writer = 0
  /\ pc = [p \in Procs |-> "idle"]
  /\ op = [p \in Procs |-> ""]
  /\ loc = [p \in Procs |-> Blank]
  /\ prev = [p \in Procs |-> <<>>]
  /\ codec = NoCodec

(***************************************************************************)
(* Inputs                                                                  *)
(***************************************************************************)
\* Arguments of HashName and of Open.
HashNames == {PlainPath, DirPath, NoSuchPath}
OpenNames == {PlainPath, HashPath, ZeroPath, DoublePath, NoSuchPath}

\* r.URL.Path of the requests: the root, the plain file, its hash name
\* written with a doubled slash, the stale hash name, and a path that is
\* still rooted once its first slash is trimmed.
URLs == {<<"/">>,
         <<"/">> \o PlainPath,
         <<"/", "d", "/", "/">> \o Tail(Tail(HashPath)),
         <<"/">> \o ZeroPath,
         <<"/", "/">> \o NoSuchPath}

Methods == {"GET", "HEAD"}

\* Request headers that http.ServeContent acts on: none, a satisfiable
\* Range, or If-None-Match: *.
Conds == {"none", "range", "if-none-match"}

(***************************************************************************)
(* FS.HashName, FS.ParseName, FS.open                                      *)
(***************************************************************************)
\* CacheHit that never hits: every call goes to the store.
CacheHitNever(s) == FALSE

\* The test of a cached name in HashName: s != "".
CacheHit(s) == s # <<>>

\* BuildHashName that formats whatever the forward map holds for the name
\* by the time the file has been read.
BuildHashNameRacy(name, buf) ==
  FormatName(IF name \in DOMAIN m THEN m[name] ELSE name, Sha256Hex(buf))

\* The name HashName builds from the bytes it read.
BuildHashName(name, buf) == FormatName(name, Sha256Hex(buf))

\* StoreReverse keyed by the path instead of the hash name.
StoreReverseByPath(name, hashname, hashhex) == (name :> <<name, hashhex>>) @@ r

\* StoreForward forgetting what the map held.
StoreForwardAlone(name, hashname) == (name :> hashname)

\* StoreReverse with the reverse entry left out.
StoreReverseSkipped(name, hashname, hashhex) == r

\* The two assignments HashName makes under the write lock.
StoreForward(name, hashname) == (name :> hashname) @@ m
StoreReverse(name, hashname, hashhex) == (hashname :> <<name, hashhex>>) @@ r

\* FS.ParseName under the read lock: the reverse map first, the codec next.
LookupName(filename) ==
  IF filename \in DOMAIN r THEN r[filename] ELSE ParseName(filename)

\* OpenTarget without the rewrite: the name is opened as given.
OpenTargetLiteral(name, base, hash, hashname) == name

\* OpenTarget without the comparison: any name that carries a hash is
\* opened under its base.
OpenTargetUnchecked(name, base, hash, hashname) ==
  IF hash # <<>> THEN base ELSE name

\* open's choice of the path to open: the base when the name carries a hash
\* and HashName(base) is the name, the name as given otherwise.
OpenTarget(name, base, hash, hashname) ==
  IF hash # <<>> /\ hashname = name THEN base ELSE name

\* open hands the parsed hash to its caller whatever the comparison gave.
OpenHash(name, base, hash, hashname) == hash

\* A goroutine's locals l once HashName has returned s: to the caller of
\* HashName, or back into open, which compares s with the name it was given.
Returned(p, l, s) ==
  IF op[p] = "HashName" THEN [l EXCEPT !.hnret = s]
  ELSE [l EXCEPT !.hnret = s,
                 !.name = OpenTarget(l.name, l.base, l.hash, s),
                 !.hash = OpenHash(l.name, l.base, l.hash, s)]

\* Where it goes on from there.
ReturnPc(p) == IF op[p] = "HashName" THEN "done" ELSE "open"

\* RUnlock that leaves the lock held.
RUnlockForgotten(p) == readers

\* fsys.mu.RUnlock() by goroutine p.
RUnlock(p) == readers \ {p}

\* What is kept of the last call when the next one starts: only a HashName
\* call for the same name is its "second call".
KeepPrev(p, o, n) ==
  IF o = "HashName" /\ prev[p] # <<>> /\ prev[p][1] = n THEN prev[p] ELSE <<>>

CallHashName(p, n) ==
  /\ pc[p] = "idle"
  /\ pc' = [pc EXCEPT ![p] = "hn_rlock"]
  /\ op' = [op EXCEPT ![p] = "HashName"]
  /\ loc' = [loc EXCEPT ![p] = [Blank EXCEPT !.requested = n, !.hn = n]]
  /\ prev' = [prev EXCEPT ![p] = KeepPrev(p, "HashName", n)]
  /\ UNCHANGED <<codec, store, m, r, readers, writer>>

CallOpen(p, n) ==
  /\ pc[p] = "idle"
  /\ pc' = [pc EXCEPT ![p] = "pn_rlock"]
  /\ op' = [op EXCEPT ![p] = "Open"]
  /\ loc' = [loc EXCEPT ![p] = [Blank EXCEPT !.requested = n, !.name = n]]
  /\ prev' = [prev EXCEPT ![p] = KeepPrev(p, "Open", n)]
  /\ UNCHANGED <<codec, store, m, r, readers, writer>>

\* fsys.mu.RLock() in FS.ParseName.
ParseRLock(p) ==
  /\ pc[p] = "pn_rlock"
  /\ writer = 0
  /\ readers' = readers \cup {p}
  /\ pc' = [pc EXCEPT ![p] = "pn_lookup"]
  /\ UNCHANGED <<codec, store, m, r, writer, op, loc, prev>>

\* The body of FS.ParseName and its deferred RUnlock, then open's test of
\* hash != "" which decides whether HashName(base) is called.
ParseLookup(p) ==
  LET parsed == LookupName(loc[p].name)
  IN  /\ pc[p] = "pn_lookup"
      /\ readers' = RUnlock(p)
      /\ loc' = [loc EXCEPT ![p].base = parsed[1], ![p].hash = parsed[2],
                            ![p].hn = IF parsed[2] # <<>> THEN parsed[1] ELSE <<>>]
      /\ pc' = [pc EXCEPT ![p] = IF parsed[2] # <<>> THEN "hn_rlock" ELSE "open"]
      /\ UNCHANGED <<codec, store, m, r, writer, op, prev>>

\* fsys.mu.RLock() in HashName.
HashRLock(p) ==
  /\ pc[p] = "hn_rlock"
  /\ writer = 0
  /\ readers' = readers \cup {p}
  /\ pc' = [pc EXCEPT ![p] = "hn_lookup"]
  /\ UNCHANGED <<codec, store, m, r, writer, op, loc, prev>>

\* The lookup of fsys.m[name] and the RUnlock on either branch.
HashLookup(p) ==
  /\ pc[p] = "hn_lookup"
  /\ readers' = RUnlock(p)
  /\ IF CacheHit(MGet(loc[p].hn))
     THEN /\ loc' = [loc EXCEPT ![p] = Returned(p, @, MGet(loc[p].hn))]
          /\ pc' = [pc EXCEPT ![p] = ReturnPc(p)]
     ELSE /\ pc' = [pc EXCEPT ![p] = "hn_read"]
          /\ loc' = loc
  /\ UNCHANGED <<codec, store, m, r, writer, op, prev>>

\* fs.ReadFile outside the lock; on an error the name is returned as given,
\* otherwise the digest and the hash name are computed.
HashRead(p) ==
  /\ pc[p] = "hn_read"
  /\ IF ReadFails(loc[p].hn)
     THEN /\ loc' = [loc EXCEPT
                 ![p] = Returned(p, [@ EXCEPT !.reads = @ + 1], loc[p].hn)]
          /\ pc' = [pc EXCEPT ![p] = ReturnPc(p)]
     ELSE /\ loc' = [loc EXCEPT
                 ![p].reads = @ + 1,
                 ![p].hashhex = Sha256Hex(Lookup(loc[p].hn).content),
                 ![p].hashname = BuildHashName(loc[p].hn, Lookup(loc[p].hn).content)]
          /\ pc' = [pc EXCEPT ![p] = "hn_lock"]
  /\ UNCHANGED <<codec, store, m, r, readers, writer, op, prev>>

\* fsys.mu.Lock() in HashName.
HashLock(p) ==
  /\ pc[p] = "hn_lock"
  /\ writer = 0
  /\ readers = {}
  /\ writer' = p
  /\ pc' = [pc EXCEPT ![p] = "hn_store"]
  /\ UNCHANGED <<codec, store, m, r, readers, op, loc, prev>>

\* fsys.m[name] = hashname, under the write lock.
HashStore(p) ==
  /\ pc[p] = "hn_store"
  /\ m' = StoreForward(loc[p].hn, loc[p].hashname)
  /\ pc' = [pc EXCEPT ![p] = "hn_store_r"]
  /\ UNCHANGED <<codec, store, r, readers, writer, op, loc, prev>>

\* fsys.r[hashname] = [2]string{name, hashhex}, Unlock, and the return of
\* the hash name.
HashStoreReverse(p) ==
  /\ pc[p] = "hn_store_r"
  /\ r' = StoreReverse(loc[p].hn, loc[p].hashname, loc[p].hashhex)
  /\ writer' = 0
  /\ loc' = [loc EXCEPT ![p] = Returned(p, @, loc[p].hashname)]
  /\ pc' = [pc EXCEPT ![p] = ReturnPc(p)]
  /\ UNCHANGED <<codec, store, m, readers, op, prev>>

(***************************************************************************)
(* fsHandler.ServeHTTP                                                     *)
(***************************************************************************)
\* The filename ServeHTTP derives from r.URL.Path.
CleanURLPath(u) ==
  Clean(IF u = <<"/">> THEN Dot ELSE TrimSlash(u))

\* http.Error: the status and a fixed line of text, written whatever the
\* request method is.
HttpError(code, meth) ==
  [NoResp EXCEPT !.status = code, !.body = "error", !.ctype = TRUE,
                 !.method = meth]

\* OpenErrorStatus with the two statuses exchanged.
OpenErrorStatusSwapped(err) == IF err = "notexist" THEN 500 ELSE 404

\* The status for an error of open.
OpenErrorStatus(err) == IF err = "notexist" THEN 404 ELSE 500

\* The test that guards the Cache-Control and ETag headers.
WantsCacheHeaders(hash) == hash # <<>>

\* What reaches the ResponseWriter of the body once the status is written:
\* nothing for HEAD, the bytes up to the failure when a Read of the file
\* fails (the error of the copy is dropped), the whole range otherwise.
Streamed(meth, readok, whole) ==
  IF meth = "HEAD" THEN "none"
  ELSE IF ~readok THEN "truncated"
  ELSE whole

\* http.ServeContent on a seekable file: If-None-Match is answered 304, a
\* Range 206 with part of the file, anything else 200 with all of it; a
\* HEAD request gets no body; Content-Type is set unless the reply is 304.
ServeContent(resp, f, meth, cond, readok) ==
  IF cond = "if-none-match"
  THEN [resp EXCEPT !.status = 304]
  ELSE IF cond = "range"
  THEN [resp EXCEPT !.status = 206, !.clen = TRUE, !.ctype = TRUE,
                    !.body = Streamed(meth, readok, "part"),
                    !.bytes = IF meth = "HEAD" THEN "" ELSE f.content]
  ELSE [resp EXCEPT !.status = 200, !.clen = TRUE, !.ctype = TRUE,
                    !.body = Streamed(meth, readok, "file"),
                    !.bytes = IF meth = "HEAD" THEN "" ELSE f.content]

\* The default branch: Content-Length, status 200, io.Copy unless HEAD.
ServeCopy(resp, f, meth, cond, readok) ==
  [resp EXCEPT !.status = 200, !.clen = TRUE,
               !.body = Streamed(meth, readok, "file"),
               !.bytes = IF meth = "HEAD" THEN "" ELSE f.content]

\* The type switch on the opened file.
ServeFile(resp, f, meth, cond, readok) ==
  IF f.seek THEN ServeContent(resp, f, meth, cond, readok)
  ELSE ServeCopy(resp, f, meth, cond, readok)

\* ServeHTTP from f.Stat() on.
StatResponse(f, hash, statok, meth, cond, readok) ==
  IF ~statok THEN HttpError(500, meth)
  ELSE IF f.kind = "dir" THEN HttpError(403, meth)
  ELSE ServeFile([NoResp EXCEPT !.cache = WantsCacheHeaders(hash),
                                !.etag = IF WantsCacheHeaders(hash) THEN hash ELSE <<>>,
                                !.method = meth, !.cond = cond],
                 f, meth, cond, readok)

CallServe(p, u) ==
  /\ pc[p] = "idle"
  /\ pc' = [pc EXCEPT ![p] = "pn_rlock"]
  /\ op' = [op EXCEPT ![p] = "ServeHTTP"]
  /\ loc' = [loc EXCEPT ![p] = [Blank EXCEPT !.requested = CleanURLPath(u),
                                             !.name = CleanURLPath(u)]]
  /\ prev' = [prev EXCEPT ![p] = KeepPrev(p, "ServeHTTP", u)]
  /\ UNCHANGED <<codec, store, m, r, readers, writer>>

\* The errors fsys.fsys.Open can give for what the store holds: a name that
\* is no valid path is refused with ErrInvalid or with ErrNotExist.
OpenErrors(e) ==
  IF e.kind = "missing" THEN {"notexist"}
  ELSE IF e.kind = "denied" THEN {"permission"}
  ELSE IF e.kind = "invalid" THEN {"invalid", "notexist"}
  ELSE {""}

\* fsys.fsys.Open(name) in open; FS.Open returns here, ServeHTTP answers an
\* error at once. The request's method is drawn where the reply is written:
\* nothing before that point reads it.
FsOpen(p) ==
  /\ pc[p] = "open"
  /\ \E err \in OpenErrors(Lookup(loc[p].name)) :
       LET f == IF err = "" THEN Lookup(loc[p].name) ELSE NoFile
           l == [loc[p] EXCEPT !.opened = TRUE, !.file = f, !.err = err]
       IN  IF op[p] = "ServeHTTP" /\ err # ""
           THEN /\ \E meth \in Methods :
                     loc' = [loc EXCEPT ![p] =
                       [l EXCEPT !.resp = HttpError(OpenErrorStatus(err), meth)]]
                /\ pc' = [pc EXCEPT ![p] = "done"]
           ELSE /\ loc' = [loc EXCEPT ![p] = l]
                /\ pc' = [pc EXCEPT ![p] = IF op[p] = "Open" THEN "done" ELSE "stat"]
  /\ UNCHANGED <<codec, store, m, r, readers, writer, op, prev>>

\* f.Stat() and the rest of ServeHTTP. Whether Stat fails, and whether a
\* Read of the file fails while it is copied, is the store's affair; the
\* request's method is drawn here, and so are its headers when the file
\* goes to http.ServeContent, the only reader of them.
ServeStat(p) ==
  /\ pc[p] = "stat"
  /\ \E statok \in BOOLEAN, meth \in Methods, cond \in Conds, readok \in BOOLEAN :
       /\ (~loc[p].file.seek \/ ~statok \/ loc[p].file.kind = "dir") => cond = "none"
       /\ (~statok \/ loc[p].file.kind = "dir" \/ meth = "HEAD"
             \/ cond = "if-none-match") => readok
       /\ loc' = [loc EXCEPT
              ![p].staterr = ~statok,
              ![p].resp = StatResponse(loc[p].file, loc[p].hash, statok, meth,
                                       cond, readok)]
  /\ pc' = [pc EXCEPT ![p] = "done"]
  /\ UNCHANGED <<codec, store, m, r, readers, writer, op, prev>>

\* The call returns; a HashName call is remembered as the goroutine's last.
Return(p) ==
  /\ pc[p] = "done"
  /\ pc' = [pc EXCEPT ![p] = "idle"]
  /\ prev' = [prev EXCEPT ![p] = IF op[p] = "HashName"
                                 THEN <<loc[p].requested, loc[p].hnret>> ELSE <<>>]
  /\ op' = [op EXCEPT ![p] = ""]
  /\ loc' = [loc EXCEPT ![p] = Blank]
  /\ UNCHANGED <<codec, store, m, r, readers, writer>>

Next ==
  \E p \in Procs :
    \/ \E n \in HashNames : CallHashName(p, n)
    \/ \E n \in OpenNames : CallOpen(p, n)
    \/ \E u \in URLs : CallServe(p, u)
    \/ ParseRLock(p)
    \/ ParseLookup(p)
    \/ HashRLock(p)
    \/ HashLookup(p)
    \/ HashRead(p)
    \/ HashLock(p)
    \/ HashStore(p)
    \/ HashStoreReverse(p)
    \/ FsOpen(p)
    \/ ServeStat(p)
    \/ Return(p)

Spec == Init /\ [][Next]_vars

\* The steps of HashName made with the lock held or wanted for reading:
\* RLock, the lookup with its RUnlock, and the two map writes with the
\* Unlock that follows them. A running goroutine takes them sooner or
\* later.
LockSteps(p) ==
  \/ HashRLock(p)
  \/ HashLookup(p)
  \/ HashStore(p)
  \/ HashStoreReverse(p)

\* The same program with a scheduler that is fair to these steps. Nothing
\* is assumed of the steps that wait for the underlying store (fs.ReadFile,
\* Open, Stat), which may never come back, of open's own steps, or of new
\* calls being made.
SpecLive == Spec /\ \A p \in Procs : WF_vars(LockSteps(p))

(***************************************************************************)
(* The package-level functions on their own                                *)
(***************************************************************************)
\* Hashes handed to FormatName: two digests, the blank hash, a short one.
CodecHashes == {Sha256Hex("c1"), Sha256Hex("c2"), <<>>, Rep("a", 8)}

\* File names handed to FormatName and ParseName: with a directory, without
\* an extension, with several, with a leading dot, with a trailing slash,
\* not in path.Clean's form, rooted, blank ...
PlainNames ==
  { PlainPath,
    <<"a">>,
    <<"a", ".", "j", "s">>,
    <<"a", ".", "t", ".", "g">>,
    <<".", "r", "c">>,
    <<"d", "/">>,
    <<"d", "/", "/", "a", ".", "j", "s">>,
    <<".", "/", "a">>,
    <<"d", "/", ".", ".", "/", "a">>,
    <<"/", "d", "/", "a", ".", "j", "s">>,
    <<"/">>,
    <<".">>,
    <<".", ".">>,
    <<>> }

\* ... and names in which the hash pattern occurs: as FormatName writes it,
\* one character short (TestParseName/ShortHash), followed by one more
\* character of the stem, one hex character too long, behind the first dot,
\* alone, twice, in the directory, without the dash, with a capital.
ShapedNames ==
  { HashPath,
    <<"a", "-">> \o Rep("a", HashLen - 1) \o <<".", "j", "s">>,
    <<"a", "-">> \o Sha256Hex("c1") \o <<"x", ".", "j", "s">>,
    <<"a", "-">> \o Sha256Hex("c1") \o <<"0">>,
    <<"a", ".", "j", "s", "-">> \o Sha256Hex("c1"),
    <<"-">> \o Sha256Hex("c1"),
    DoublePath,
    <<"a", "-">> \o Sha256Hex("c1") \o <<"/", "b", ".", "j", "s">>,
    <<"a">> \o Sha256Hex("c1") \o <<".", "j", "s">>,
    <<"a", "-">> \o Rep("a", HashLen - 1) \o <<"G", ".", "j", "s">> }

CodecNames == PlainNames \union ShapedNames

\* The functions need no FS: none is constructed.
InitCodec ==
  /\ store = <<>>
  /\ m = <<>>
  /\ r = <<>>
  /\ readers = {}
  /\ writer = 0
  /\ pc = [p \in Procs |-> "idle"]
  /\ op = [p \in Procs |-> ""]
  /\ loc = [p \in Procs |-> Blank]
  /\ prev = [p \in Procs |-> <<>>]
  /\ \E f \in CodecNames, h \in CodecHashes :
       codec = [NoCodec EXCEPT !.step = "new", !.filename = f, !.hash = h]

\* name := FormatName(filename, hash)
CodecFormat ==
  /\ codec.step = "new"
  /\ codec' = [codec EXCEPT !.step = "formatted",
                            !.name = FormatName(codec.filename, codec.hash)]
  /\ UNCHANGED <<store, m, r, readers, writer, pc, op, loc, prev>>

\* base, hash := ParseName(name), of the name FormatName returned
CodecParse ==
  /\ codec.step = "formatted"
  /\ codec' = [codec EXCEPT !.step = "parsed",
                            !.base = ParseName(codec.name)[1],
                            !.parsed = ParseName(codec.name)[2]]
  /\ UNCHANGED <<store, m, r, readers, writer, pc, op, loc, prev>>

\* base, hash := ParseName(filename), of a name as given
CodecSplit ==
  /\ codec.step = "new"
  /\ codec' = [codec EXCEPT !.step = "split",
                            !.base = ParseName(codec.filename)[1],
                            !.parsed = ParseName(codec.filename)[2]]
  /\ UNCHANGED <<store, m, r, readers, writer, pc, op, loc, prev>>

NextCodec == CodecFormat \/ CodecParse \/ CodecSplit

SpecCodec == InitCodec /\ [][NextCodec]_vars

(***************************************************************************)
(* Properties                                                              *)
(***************************************************************************)
\* Goroutine p has finished a call of o and has not yet returned.
Done(p, o) == pc[p] = "done" /\ op[p] = o

\* The hex digests tried in names.
Digests == {ZeroHash} \cup {Sha256Hex(c) : c \in Contents}

\* The hash name of a path as the store determines it.
TrueHashName(path) ==
  IF Readable(path) THEN FormatName(path, Sha256Hex(Lookup(path).content))
  ELSE path

\* A verified name: it embeds a digest and is the hash name of its base.
Verified(name) ==
  /\ ParseName(name)[2] # <<>>
  /\ TrueHashName(ParseName(name)[1]) = name

\* A name made of a file of the store and a digest that is not the digest
\* of that file's content.
Tampered(name) ==
  \E path \in DOMAIN store, d \in Digests :
    /\ store[path].kind = "file"
    /\ d # Sha256Hex(store[path].content)
    /\ name = FormatName(path, d)

\* C1: a response of the file server carries the Cache-Control and ETag
\* headers only if the requested name is verified, and every 200 response
\* to a verified name carries them.
C1_CacheHeadersIffVerified ==
  \A p \in Procs :
    Done(p, "ServeHTTP") =>
      /\ loc[p].resp.cache => Verified(loc[p].requested)
      /\ loc[p].resp.etag # <<>> => Verified(loc[p].requested)
      /\ (loc[p].resp.status = 200 /\ Verified(loc[p].requested))
           => loc[p].resp.cache

\* C2: Open of the hash name of a readable file P opens P itself and yields
\* P's content, whatever the cache holds.
C2_OpenHashNameOpensFile ==
  \A p \in Procs : \A path \in DOMAIN store :
    (/\ Done(p, "Open")
     /\ Readable(path)
     /\ loc[p].requested = FormatName(path, Sha256Hex(store[path].content)))
      => /\ loc[p].opened
         /\ loc[p].name = path
         /\ loc[p].err = ""
         /\ loc[p].file = store[path]

\* C2 on a warm cache: the hash name is answered from the reverse map, with
\* no read of the store, while a file of that literal name and other
\* content exists.
C2_Witness ==
  \E p \in Procs :
    /\ Done(p, "Open")
    /\ loc[p].requested = HashPath
    /\ Readable(PlainPath)
    /\ Readable(HashPath)
    /\ store[HashPath].content # store[PlainPath].content
    /\ loc[p].reads = 0
    /\ loc[p].file = store[PlainPath]

\* C3: a request for a tampered name is opened under the literal name,
\* never under the file's path; when the store has nothing of that name
\* Open fails with not-exist and the file server answers 404.
C3_TamperedNameOpenedLiterally ==
  \A p \in Procs :
    ((Done(p, "Open") \/ Done(p, "ServeHTTP")) /\ Tampered(loc[p].requested))
      => /\ loc[p].opened
         /\ loc[p].name = loc[p].requested
         /\ Lookup(loc[p].requested).kind = "missing"
              => /\ loc[p].err = "notexist"
                 /\ Done(p, "ServeHTTP") => loc[p].resp.status = 404

\* C3 with the file's true hash name already cached.
C3_Witness ==
  \E p \in Procs :
    /\ Done(p, "ServeHTTP")
    /\ Tampered(loc[p].requested)
    /\ Lookup(loc[p].requested).kind = "missing"
    /\ loc[p].resp.status = 404
    /\ loc[p].reads = 0
    /\ PlainPath \in DOMAIN m

\* C4: HashName of a readable path returns FormatName(path, digest of its
\* content); the forward map then holds path -> name and the reverse map
\* name -> <<path, digest>>.
C4_HashNameFormatsAndStores ==
  \A p \in Procs :
    (Done(p, "HashName") /\ Readable(loc[p].requested))
      => LET digest == Sha256Hex(Lookup(loc[p].requested).content)
             name == FormatName(loc[p].requested, digest)
         IN  /\ loc[p].hnret = name
             /\ MGet(loc[p].requested) = name
             /\ name \in DOMAIN r
             /\ r[name] = <<loc[p].requested, digest>>

\* C4 on a miss: the call read the file and stored the entries itself.
C4_Witness ==
  \E p \in Procs :
    /\ Done(p, "HashName")
    /\ Readable(loc[p].requested)
    /\ loc[p].reads = 1
    /\ loc[p].hnret = HashPath

\* C5 as stated: the second of two consecutive HashName calls for a path
\* returns what the first returned and reads nothing from the store.
C5_SecondCallNeverReads ==
  \A p \in Procs :
    (Done(p, "HashName") /\ prev[p] # <<>>)
      => /\ loc[p].hnret = prev[p][2]
         /\ loc[p].reads = 0

\* C5 amended: the second of two consecutive HashName calls for a path
\* returns what the first returned; it reads nothing from the store when
\* the path is readable, and reads once more when it is not, since a failed
\* read is not cached.
C5_SecondCallSameResult ==
  \A p \in Procs :
    (Done(p, "HashName") /\ prev[p] # <<>>)
      => /\ prev[p][1] = loc[p].requested
         /\ loc[p].hnret = prev[p][2]
         /\ Readable(loc[p].requested) => loc[p].reads = 0
         /\ ~Readable(loc[p].requested) => loc[p].reads = 1

\* C5: a second call for a readable path, answered from the cache.
C5_Witness ==
  \E p \in Procs :
    /\ Done(p, "HashName")
    /\ prev[p] # <<>>
    /\ Readable(loc[p].requested)
    /\ loc[p].hnret = HashPath
    /\ loc[p].reads = 0

\* C6: no step of a HashName call for a path whose read fails changes the
\* forward or the reverse map, and the call returns the path as given.
C6_FailedReadLeavesMaps ==
  [][\A p \in Procs :
       (op[p] = "HashName" /\ ~Readable(loc[p].hn) /\ pc'[p] # pc[p])
         => /\ m' = m
            /\ r' = r
            /\ pc'[p] = "done" => loc'[p].hnret = loc[p].requested]_vars

\* C6: a call for an unreadable path has returned it, the cache being
\* non-empty at the time.
C6_Witness ==
  \E p \in Procs :
    /\ Done(p, "HashName")
    /\ ~Readable(loc[p].requested)
    /\ loc[p].reads = 1
    /\ loc[p].hnret = loc[p].requested
    /\ m # <<>>

\* The keys of the reverse map that point back to a path.
ReverseKeys(path) == {k \in DOMAIN r : r[k][1] = path}

\* C7: any two HashName calls for the same path, made directly or from
\* open, returned the same name, and the entries the maps hold for the path
\* are those one call alone leaves: path -> name and name -> <<path,
\* digest>> for a readable path, none otherwise.
C7_ConcurrentCallsAgree ==
  \A p, q \in Procs :
    (loc[p].hnret # <<>> /\ loc[q].hnret # <<>> /\ loc[p].hn = loc[q].hn)
      => /\ loc[p].hnret = loc[q].hnret
         /\ Readable(loc[p].hn)
              => /\ MGet(loc[p].hn) = loc[p].hnret
                 /\ ReverseKeys(loc[p].hn) = {loc[p].hnret}
                 /\ r[loc[p].hnret] =
                      <<loc[p].hn, Sha256Hex(Lookup(loc[p].hn).content)>>
         /\ ~Readable(loc[p].hn)
              => /\ loc[p].hn \notin DOMAIN m
                 /\ ReverseKeys(loc[p].hn) = {}

\* C7: two calls for one readable path both missed the cache, both read the
\* file and both have returned.
C7_Witness ==
  \E p, q \in Procs :
    /\ p # q
    /\ loc[p].hnret # <<>>
    /\ loc[q].hnret # <<>>
    /\ loc[p].hn = loc[q].hn
    /\ Readable(loc[p].hn)
    /\ loc[p].reads = 1
    /\ loc[q].reads = 1

\* C8: the status of a response is 404 for a not-exist error of open, 500
\* for any other error of open, 500 for an error of Stat, 403 for a
\* directory (the root included), and below 400 only for a regular file
\* that was opened and stat-ed; an error response carries no file bytes.
C8_StatusMapping ==
  \A p \in Procs :
    Done(p, "ServeHTTP") =>
      LET l == loc[p]
          served == l.err = "" /\ ~l.staterr /\ l.file.kind = "file"
      IN  /\ l.err = "notexist" => l.resp.status = 404
          /\ l.err \notin {"", "notexist"} => l.resp.status = 500
          /\ (l.err = "" /\ l.staterr) => l.resp.status = 500
          /\ (l.err = "" /\ ~l.staterr /\ l.file.kind = "dir") => l.resp.status = 403
          /\ (l.requested = Dot /\ ~l.staterr) => l.resp.status = 403
          /\ l.resp.status < 400 <=> served
          /\ ~served => (l.resp.body = "error" /\ l.resp.bytes = "")

\* C8: the request for "/" was answered 403.
C8_Witness ==
  \E p \in Procs :
    /\ Done(p, "ServeHTTP")
    /\ loc[p].requested = Dot
    /\ loc[p].file.kind = "dir"
    /\ loc[p].resp.status = 403
    /\ loc[p].resp.body = "error"

\* C9: a request that resolves to a regular file is answered 200 with the
\* whole file, whatever its Range or If-None-Match header.
C9_AlwaysWholeFile ==
  \A p \in Procs :
    (/\ Done(p, "ServeHTTP")
     /\ loc[p].err = ""
     /\ ~loc[p].staterr
     /\ loc[p].file.kind = "file")
      => /\ loc[p].resp.status = 200
         /\ loc[p].resp.method = "GET"
              => /\ loc[p].resp.body = "file"
                 /\ loc[p].resp.bytes = loc[p].file.content

\* C10: the handler writes no body for a HEAD request, whatever the outcome.
C10_HeadWritesNoBody ==
  \A p \in Procs :
    (Done(p, "ServeHTTP") /\ loc[p].resp.method = "HEAD")
      => loc[p].resp.body = "none"

\* C11: no partial results. Every finished GET request without conditional
\* or range headers either has status 200 with the whole content of the
\* file written and a Content-Length, or has an error status with nothing
\* of the file written; a Read that fails while the file is streamed never
\* leaves a 200 reply with a truncated body.
C11_NoPartialResults ==
  \A p \in Procs :
    (/\ Done(p, "ServeHTTP")
     /\ loc[p].resp.method = "GET"
     /\ loc[p].resp.cond = "none")
      => \/ /\ loc[p].resp.status = 200
            /\ loc[p].resp.clen
            /\ loc[p].resp.body = "file"
            /\ loc[p].resp.bytes = loc[p].file.content
         \/ /\ loc[p].resp.status >= 400
            /\ loc[p].resp.body = "error"

\* A digest as hex.EncodeToString writes it.
IsDigest(h) == Len(h) = HashLen /\ \A i \in 1..Len(h) : h[i] \in HexChars

\* FormatName has been applied to a non-empty name and a digest, and
\* ParseName to what it returned.
RoundTrip ==
  /\ codec.step = "parsed"
  /\ codec.filename # <<>>
  /\ IsDigest(codec.hash)

LastSlashAt(f) ==
  IF \E i \in 1..Len(f) : f[i] = "/"
  THEN CHOOSE i \in 1..Len(f) : f[i] = "/" /\ \A j \in (i + 1)..Len(f) : f[j] # "/"
  ELSE 0

FirstDotAt(f) ==
  IF \E i \in (LastSlashAt(f) + 1)..Len(f) : f[i] = "."
  THEN CHOOSE i \in (LastSlashAt(f) + 1)..Len(f) :
         f[i] = "." /\ \A j \in (LastSlashAt(f) + 1)..(i - 1) : f[j] # "."
  ELSE Len(f) + 1

StemOf(f) == SubSeq(f, LastSlashAt(f) + 1, FirstDotAt(f) - 1)

\* s ends with a dash and a digest.
EndsWithDigest(s) ==
  /\ Len(s) >= HashLen + 1
  /\ s[Len(s) - HashLen] = "-"
  /\ IsDigest(SubSeq(s, Len(s) - HashLen + 1, Len(s)))

\* C13: ParseName, applied to a name as given, reports a digest only when
\* the stem ends with a dash and exactly 64 lowercase hex characters; the
\* digest is then those characters and the base the name without that
\* suffix of 65. In every other case (fewer than 64 hex characters, the
\* pattern elsewhere than at the tail of the stem) it returns the name
\* unchanged and an empty digest.
C13_DigestOnlyAtTailOfStem ==
  codec.step = "split" =>
    LET f == codec.filename
        stem == StemOf(f)
    IN  IF EndsWithDigest(stem)
        THEN /\ codec.parsed = SubSeq(stem, Len(stem) - HashLen + 1, Len(stem))
             /\ codec.base = SubSeq(f, 1, FirstDotAt(f) - HashLen - 2)
                               \o SubSeq(f, FirstDotAt(f), Len(f))
        ELSE /\ codec.parsed = <<>>
             /\ codec.base = f

\* f with "-" and h put in before the first dot of its base name, or at its
\* end when the base name has no dot; nothing else of f is touched.
Inserted(f, h) ==
  SubSeq(f, 1, FirstDotAt(f) - 1) \o <<"-">> \o h \o SubSeq(f, FirstDotAt(f), Len(f))

\* C14 as stated: FormatName returns "" for an empty path, the path for an
\* empty hash, and otherwise the path with "-" and the hash put in before
\* the first dot of the base name (at its end without a dot), the directory
\* part preserved.
C14_FormatKeepsDirectory ==
  codec.step \in {"formatted", "parsed"} =>
    codec.name = IF codec.filename = <<>> THEN <<>>
                 ELSE IF codec.hash = <<>> THEN codec.filename
                 ELSE Inserted(codec.filename, codec.hash)

\* C14 amended: as stated, except that with a path and a hash both
\* non-empty the result is path.Clean of the path with the hash put in, so
\* the directory part is preserved as written when the path is clean.
C14_FormatCleansDirectory ==
  codec.step \in {"formatted", "parsed"} =>
    /\ codec.name = IF codec.filename = <<>> THEN <<>>
                    ELSE IF codec.hash = <<>> THEN codec.filename
                    ELSE Clean(Inserted(codec.filename, codec.hash))
    /\ (codec.filename # <<>> /\ Clean(codec.filename) = codec.filename)
         => codec.name = IF codec.hash = <<>> THEN codec.filename
                         ELSE Inserted(codec.filename, codec.hash)

\* FormatName applied to a name with several extensions below a directory
\* written with a dot-dot element.
C14_Witness ==
  /\ codec.step = "formatted"
  /\ IsDigest(codec.hash)
  /\ codec.filename = <<"d", "/", ".", ".", "/", "a">>
  /\ codec.name = <<"a", "-">> \o codec.hash

\* C15: every 200 response of the file server carries a Content-Type, for
\* a file that can seek and for one that cannot.
C15_ContentTypeOnEvery200 ==
  \A p \in Procs :
    (Done(p, "ServeHTTP") /\ loc[p].resp.status = 200) => loc[p].resp.ctype

\* C16: in every state in which the write lock is free, so in every state a
\* holder of the read lock can see: each forward entry P -> H has a reverse
\* entry H -> (P, d), where H = FormatName(P, d) and d is the digest of P's
\* content when the entry was made (the store does not change, so of its
\* content now); and each reverse entry H -> (P, d) has a forward entry
\* for P.
C16_MapsMirrorEachOther ==
  writer = 0 =>
    /\ \A P \in DOMAIN m :
         /\ m[P] \in DOMAIN r
         /\ r[m[P]][1] = P
         /\ m[P] = FormatName(P, r[m[P]][2])
         /\ Readable(P)
         /\ r[m[P]][2] = Sha256Hex(Lookup(P).content)
    /\ \A H \in DOMAIN r :
         /\ r[H][1] \in DOMAIN m
         /\ m[r[H][1]] = H

\* A goroutine holds the read lock and looks at maps with two entries each,
\* while the other is between reading a file and taking the write lock.
C16_Witness ==
  /\ readers # {}
  /\ writer = 0
  /\ Cardinality(DOMAIN m) = 2
  /\ Cardinality(DOMAIN r) = 2
  /\ \E p \in Procs : pc[p] = "hn_lock"

\* C17: the cache starts empty, and no step of any call removes an entry of
\* the forward or of the reverse map or changes its value.
C17_EntriesPermanent ==
  /\ (m = <<>> /\ r = <<>>)
  /\ [][/\ \A P \in DOMAIN m : P \in DOMAIN m' /\ m'[P] = m[P]
        /\ \A H \in DOMAIN r : H \in DOMAIN r' /\ r'[H] = r[H]]_vars

\* A goroutine that missed the cache has taken the write lock and written,
\* a second time, the forward entry of a path that already has both its
\* entries, next to the entries of another path.
C17_Witness ==
  \E p \in Procs :
    /\ pc[p] = "hn_store_r"
    /\ loc[p].hashname \in DOMAIN r
    /\ r[loc[p].hashname] = <<loc[p].hn, loc[p].hashhex>>
    /\ Cardinality(DOMAIN m) = 2
    /\ Cardinality(DOMAIN r) = 2

\* Goroutine p is waiting for the underlying store.
InStoreIO(p) == pc[p] \in {"hn_read", "open", "stat"}

\* Goroutine p holds the lock exactly where the code has taken it and not
\* yet released it, and the step that releases it can be taken.
LockDiscipline ==
  /\ \A p \in Procs :
       /\ p \in readers <=> pc[p] \in {"pn_lookup", "hn_lookup"}
       /\ writer = p <=> pc[p] \in {"hn_store", "hn_store_r"}
       /\ pc[p] = "hn_lookup" => ENABLED HashLookup(p)
       /\ writer = p => ENABLED (HashStore(p) \/ HashStoreReverse(p))
       /\ (InStoreIO(p) \/ pc[p] \in {"done", "idle"})
            => (p \notin readers /\ writer # p)
  /\ writer # 0 => readers = {}

\* Goroutine p has called HashName for a path the forward map holds.
NeedsOnlyCacheHit(p) ==
  /\ op[p] = "HashName"
  /\ pc[p] = "hn_rlock"
  /\ loc[p].hn \in DOMAIN m

\* C18: no goroutine holds the lock while it waits for the underlying store
\* or after its call has finished, a held lock can always be released by
\* its holder, and a HashName call for a cached path finishes without a
\* read, whether or not the other goroutines ever come back from the store.
C18_NoLockAcrossIO ==
  /\ []LockDiscipline
  /\ \A p \in Procs :
       NeedsOnlyCacheHit(p) ~> (Done(p, "HashName") /\ loc[p].reads = 0)

\* A HashName call has finished from the cache while the other goroutine
\* is still inside fs.ReadFile.
C18_Witness ==
  \E p, q \in Procs :
    /\ p # q
    /\ Done(p, "HashName")
    /\ loc[p].reads = 0
    /\ loc[p].hnret = MGet(loc[p].requested)
    /\ loc[p].requested \in DOMAIN m
    /\ pc[q] = "hn_read"

\* The regular files of the store, which fs.ReadFile can read.
ReadableFiles == {P \in DOMAIN store : Readable(P)}

\* C19: whatever names the calls were made with, every key of the forward
\* map is a readable file of the store, the reverse map has one entry for
\* each forward entry (once the writer has left), and the cache holds no
\* more entries than the store has readable files.
C19_CacheHoldsReadableFilesOnly ==
  /\ DOMAIN m \subseteq ReadableFiles
  /\ Cardinality(DOMAIN m) <= Cardinality(ReadableFiles)
  /\ Cardinality(DOMAIN r) <= Cardinality(DOMAIN m)
  /\ writer = 0 => Cardinality(DOMAIN r) = Cardinality(DOMAIN m)
  /\ \A H \in DOMAIN r : r[H][1] \in ReadableFiles

\* Two files are cached, and a HashName call for a name that is no
\* readable file (missing, or a directory) has tried to read it and has
\* finished without leaving an entry.
C19_Witness ==
  /\ writer = 0
  /\ Cardinality(DOMAIN m) = 2
  /\ Cardinality(DOMAIN r) = 2
  /\ \E p \in Procs :
       /\ Done(p, "HashName")
       /\ loc[p].requested \notin ReadableFiles
       /\ loc[p].requested \notin DOMAIN m
       /\ loc[p].reads = 1
       /\ loc[p].hnret = loc[p].requested
====
